---- MODULE Spec2Model ----
(***************************************************************************)
(* Model of js/trip.js: the trip page pipeline.                            *)
(*   initTripPage  -> metadata fetch, header, day list check               *)
(*   loadAllDays   -> one loadDayGeoJSON per day entry, joined by          *)
(*                    Promise.all                                          *)
(*   loadDayGeoJSON-> fetch, status check, body parse, normalisation       *)
(*   aggregation   -> totals, vert per mile, table, map, legend            *)
(* JavaScript runs the code between two awaits atomically, so every action *)
(* below is one continuation: the code from one await to the next.         *)
(*                                                                         *)
(* Values.  A JavaScript value that may be null/undefined is a sequence of *)
(* length 0 (None) or 1 (Some(v)); `x != null` is `x # None`.  A JSON      *)
(* object is a record that carries all the fields the code reads, with an  *)
(* isNull flag for a JSON null in its place.  Numbers are integers.        *)
(***************************************************************************)
EXTENDS Integers, Sequences, FiniteSets, TLC

\* Largest number of day entries a meta.json of the model declares.
MaxDays == 2

None == <<>>

Some(v) == <<v>>

(***************************************************************************)
(* GeoJSON values                                                          *)
(***************************************************************************)
NoProps == [isNull |-> TRUE, day |-> None, distance_miles |-> None,
            elevation_gain_ft |-> None]

Props(day, dist, elev) == [isNull |-> FALSE, day |-> day,
                           distance_miles |-> dist, elevation_gain_ft |-> elev]

NullGeometry == [isNull |-> TRUE, type |-> "null", coordinates |-> None]

Geometry(type, coordinates) ==
    [isNull |-> FALSE, type |-> type, coordinates |-> coordinates]

NullFeature == [isNull |-> TRUE, geometry |-> NullGeometry, properties |-> NoProps]

Feature(geometry, properties) ==
    [isNull |-> FALSE, geometry |-> geometry, properties |-> properties]

\* JSON `null` as a whole response body.
NullJson == [isNull |-> TRUE, type |-> "null", features |-> None,
             geometry |-> NullGeometry, properties |-> NoProps,
             coordinates |-> None]

FeatureCollectionJson(features) ==
    [isNull |-> FALSE, type |-> "FeatureCollection", features |-> features,
     geometry |-> NullGeometry, properties |-> NoProps, coordinates |-> None]

FeatureJson(geometry, properties) ==
    [isNull |-> FALSE, type |-> "Feature", features |-> None,
     geometry |-> geometry, properties |-> properties, coordinates |-> None]

GeometryJson(type, coordinates) ==
    [isNull |-> FALSE, type |-> type, features |-> None,
     geometry |-> NullGeometry, properties |-> NoProps,
     coordinates |-> coordinates]

\* Coordinates are [longitude, latitude, elevation?].
LineA == << <<0, 0, 10>>, <<3, 4, 30>>, <<3, 5, 20>> >>

LineB == << <<1, 1>>, <<2, 1>> >>

LineC == << <<5, 5, 0>>, <<5, 7, 8>> >>

\* The response bodies a day file of the model can hold.
BodyNames == {"line", "fcEmbedded", "featPartial", "fcNullEntry",
              "fcNoFeatures", "null"}

Body(name) ==
    CASE name = "line" ->
           GeometryJson("LineString", Some(LineA))
      [] name = "fcEmbedded" ->
           FeatureCollectionJson(Some(<<
               Feature(Geometry("LineString", Some(LineA)),
                       Props(Some(7), Some(5), Some(100))) >>))
      [] name = "featPartial" ->
           FeatureJson(Geometry("MultiLineString", Some(<<LineB, LineC>>)),
                       Props(None, Some(0 - 2), None))
      [] name = "fcNullEntry" ->
           FeatureCollectionJson(Some(<<
               Feature(NullGeometry, Props(None, Some(5), Some(100))),
               NullFeature,
               Feature(Geometry("LineString", Some(LineC)), NoProps) >>))
      [] name = "fcNoFeatures" ->
           FeatureCollectionJson(None)
      [] OTHER -> NullJson

(***************************************************************************)
(* Geometry Extractor                                                      *)
(***************************************************************************)
RECURSIVE flat(_)
flat(segments) ==
    IF segments = <<>> THEN <<>>
    ELSE Head(segments) \o flat(Tail(segments))

extractCoordsFromGeometry(geometry) ==
    IF geometry.isNull THEN <<>>
    ELSE IF geometry.type = "LineString" THEN
        (IF geometry.coordinates = None THEN <<>> ELSE geometry.coordinates[1])
    ELSE IF geometry.type = "MultiLineString" THEN
        (IF geometry.coordinates = None THEN <<>>
         ELSE flat(geometry.coordinates[1]))
    ELSE <<>>

TypeErrorGeometry == "Cannot read properties of null (reading 'geometry')"

Returned(coords) == [raise |-> FALSE, coords |-> coords, message |-> ""]

Raised(message) == [raise |-> TRUE, coords |-> <<>>, message |-> message]

\* The for..of loop of extractCoords: `found` is FALSE when the loop runs
\* to its end without a return.
RECURSIVE scanFeatures(_)
scanFeatures(features) ==
    IF features = <<>> THEN [found |-> FALSE, raise |-> FALSE, coords |-> <<>>]
    ELSE IF Head(features).isNull THEN
        [found |-> FALSE, raise |-> TRUE, coords |-> <<>>]
    ELSE LET c == extractCoordsFromGeometry(Head(features).geometry)
         IN IF Len(c) > 0 THEN [found |-> TRUE, raise |-> FALSE, coords |-> c]
            ELSE scanFeatures(Tail(features))

extractCoords(geojson) ==
    IF geojson.isNull THEN Returned(<<>>)
    ELSE LET scan == IF geojson.type = "FeatureCollection"
                     THEN scanFeatures(IF geojson.features = None THEN <<>>
                                       ELSE geojson.features[1])
                     ELSE [found |-> FALSE, raise |-> FALSE, coords |-> <<>>]
         IN IF scan.raise THEN Raised(TypeErrorGeometry)
            ELSE IF scan.found THEN Returned(scan.coords)
            ELSE IF geojson.type = "Feature"
                 THEN Returned(extractCoordsFromGeometry(geojson.geometry))
            ELSE Returned(extractCoordsFromGeometry(geojson))

getFirstFeatureProps(geojson) ==
    IF geojson.isNull THEN NoProps
    ELSE IF geojson.type = "FeatureCollection" THEN
        (IF geojson.features # None /\ Len(geojson.features[1]) > 0
            /\ ~Head(geojson.features[1]).isNull
         THEN Head(geojson.features[1]).properties
         ELSE NoProps)
    ELSE IF geojson.type = "Feature" THEN geojson.properties
    ELSE NoProps

(***************************************************************************)
(* Metric Calculator.  calcDistance and calcElevationGain are called by    *)
(* trip.js but defined in another script of the site; they follow the      *)
(* design document.  The great-circle distance of two coordinates is       *)
(* abstracted to |dlon| + |dlat|: non-negative, symmetric, 0 on equal      *)
(* points.                                                                 *)
(***************************************************************************)
Abs(x) == IF x < 0 THEN 0 - x ELSE x

pairDistance(a, b) == Abs(a[1] - b[1]) + Abs(a[2] - b[2])

RECURSIVE calcDistance(_)
calcDistance(coords) ==
    IF Len(coords) < 2 THEN 0
    ELSE pairDistance(coords[1], coords[2]) + calcDistance(Tail(coords))

pairGain(a, b) ==
    IF Len(a) >= 3 /\ Len(b) >= 3 /\ b[3] > a[3] THEN b[3] - a[3] ELSE 0

RECURSIVE calcElevationGain(_)
calcElevationGain(coords) ==
    IF Len(coords) < 2 THEN 0
    ELSE pairGain(coords[1], coords[2]) + calcElevationGain(Tail(coords))

(***************************************************************************)
(* Day entries of meta.json                                                *)
(***************************************************************************)
\* LEGACY: a bare filename string.
LegacyEntry(file) == [isNewFormat |-> FALSE, file |-> file,
                      distance_miles |-> None, elevation_gain_ft |-> None]

\* NEW: an object { file, distance_miles?, elevation_gain_ft? }.
ManualEntry(file, dist, elev) == [isNewFormat |-> TRUE, file |-> file,
                                  distance_miles |-> dist,
                                  elevation_gain_ft |-> elev]

EntrySet == { LegacyEntry("day-legacy.geojson"),
              ManualEntry("day-manual.geojson", Some(4), Some(9)),
              ManualEntry("day-bare.geojson", None, None),
              ManualEntry("day-neg.geojson", Some(0 - 3), Some(6)) }

RECURSIVE SeqsUpTo(_, _)
SeqsUpTo(S, n) ==
    IF n = 0 THEN { <<>> }
    ELSE LET shorter == SeqsUpTo(S, n - 1)
         IN shorter \cup { Append(q, e) : q \in {r \in shorter : Len(r) = n - 1},
                                          e \in S }

\* meta.days as parsed: a list of day entries (possibly empty), or a value
\* that is not a list (missing, null, a string ...).
MetaDaysSet == { [isArray |-> TRUE, list |-> l] : l \in SeqsUpTo(EntrySet, MaxDays) }
               \cup { [isArray |-> FALSE, list |-> <<>>] }

TripId == "trip"

DataRoot == "../data"

(***************************************************************************)
(* Outcomes of the network                                                 *)
(***************************************************************************)
\* fetch() rejects, answers with a non-success status, or answers 2xx.
FetchOutcomes == {"reject", "http404", "ok"}

\* res.json() rejects, or yields one of the bodies.
JsonOutcomes == {"parseError"} \cup BodyNames

fetchErrorMessage(outcome) ==
    IF outcome = "reject" THEN "Failed to fetch" ELSE "HTTP 404"

SyntaxErrorMessage == "Unexpected token in JSON"

(***************************************************************************)
(* loadDayGeoJSON                                                          *)
(***************************************************************************)
\* Variant: an absent value defaults to -1.
manualOrMinusOne(manual) == IF manual # None THEN manual[1] ELSE 0 - 1

\* `manual != null ? manual : 0`
manualOrZero(manual) == IF manual # None THEN manual[1] ELSE 0

\* Variant: the result object starts with the declared stats.
newResultPrefilled(entry, index) ==
    [index     |-> index,
     filename  |-> entry.file,
     url       |-> <<DataRoot, TripId, entry.file>>,
     ok        |-> FALSE,
     geojson   |-> NullJson,
     dayNumber |-> index + 1,
     distance  |-> IF entry.distance_miles # None THEN entry.distance_miles[1] ELSE 0,
     elevation |-> IF entry.elevation_gain_ft # None
                   THEN entry.elevation_gain_ft[1] ELSE 0,
     error     |-> None]

\* The result object as constructed before the try block.
newResult(entry, index) ==
    [index     |-> index,
     filename  |-> entry.file,
     url       |-> <<DataRoot, TripId, entry.file>>,
     ok        |-> FALSE,
     geojson   |-> NullJson,
     dayNumber |-> index + 1,
     distance  |-> 0,
     elevation |-> 0,
     error     |-> None]

Threw(result, message) == [threw |-> TRUE, message |-> message, result |-> result]

Completed(result) == [threw |-> FALSE, message |-> "", result |-> result]

\* Variant: embedded properties of the body win over the declared stats.
normaliseManualEmbeddedFirst(result, manualDist, manualElev) ==
    LET props == getFirstFeatureProps(result.geojson)
    IN [result EXCEPT
          !.distance  = IF ~props.isNull /\ props.distance_miles # None
                        THEN props.distance_miles[1]
                        ELSE IF manualDist # None THEN manualDist[1] ELSE 0,
          !.elevation = IF ~props.isNull /\ props.elevation_gain_ft # None
                        THEN props.elevation_gain_ft[1]
                        ELSE IF manualElev # None THEN manualElev[1] ELSE 0]

\* The new-format branch of the try block.
normaliseManual(result, manualDist, manualElev) ==
    [result EXCEPT !.distance  = manualOrZero(manualDist),
                   !.elevation = manualOrZero(manualElev)]

\* The legacy branch of the try block, once extractCoords has returned.
normaliseLegacy(result, props, coords) ==
    [result EXCEPT
       !.distance  = IF ~props.isNull /\ props.distance_miles # None
                     THEN props.distance_miles[1] ELSE calcDistance(coords),
       !.elevation = IF ~props.isNull /\ props.elevation_gain_ft # None
                     THEN props.elevation_gain_ft[1]
                     ELSE calcElevationGain(coords)]

\* Variant: the embedded label is taken as zero-based.
dayNumberOfZeroBased(props, index) ==
    IF ~props.isNull /\ props.day # None THEN props.day[1] + 1 ELSE index + 1

\* `(props && props.day != null) ? props.day : index + 1`
dayNumberOf(props, index) ==
    IF ~props.isNull /\ props.day # None THEN props.day[1] ELSE index + 1

\* The try block from the point where res.json() has yielded `geojson`.
afterParse(result, entry, geojson) ==
    LET manualDist == IF entry.isNewFormat THEN entry.distance_miles ELSE None
        manualElev == IF entry.isNewFormat THEN entry.elevation_gain_ft ELSE None
        r1    == [result EXCEPT !.geojson = geojson, !.ok = TRUE]
        props == getFirstFeatureProps(geojson)
        r2    == [r1 EXCEPT !.dayNumber = dayNumberOf(props, result.index)]
    IN IF entry.isNewFormat
       THEN Completed(normaliseManual(r2, manualDist, manualElev))
       ELSE LET ex == extractCoords(geojson)
            IN IF ex.raise THEN Threw(r2, ex.message)
               ELSE Completed(normaliseLegacy(r2, props, ex.coords))

\* Variant: no catch clause, the exception leaves the async function.
settleUncaught(t) ==
    IF t.threw
    THEN [state |-> "rejected", result |-> t.result]
    ELSE [state |-> "fulfilled", result |-> t.result]

\* The catch clause and `return result`: how the promise of the async
\* function settles.
settle(t) ==
    IF t.threw
    THEN [state |-> "fulfilled", result |-> [t.result EXCEPT !.error = Some(t.message)]]
    ELSE [state |-> "fulfilled", result |-> t.result]

(***************************************************************************)
(* Promise.all: the value of the promise at position p goes to slot p.     *)
(***************************************************************************)
\* Variant: a join that appends values as they arrive.
promiseAllSlotByArrival(values, remaining, p) == Len(values) - remaining + 1

promiseAllSlot(values, remaining, p) == p

(***************************************************************************)
(* Aggregation and presentation (initTripPage after the join)              *)
(***************************************************************************)
\* Variant: one failed day empties the list of valid days.
validDaysAllOrNone(results) ==
    IF \E p \in 1..Len(results) : ~results[p].ok THEN <<>> ELSE results

\* dayResults.filter(d => d.ok)
validDays(results) == SelectSeq(results, LAMBDA d : d.ok)

\* Variant: `=` in place of `+=`, the last day's distance wins.
sumDistanceLastOnly(days) ==
    IF days = <<>> THEN 0 ELSE days[Len(days)].distance

RECURSIVE sumDistance(_)
sumDistance(days) ==
    IF days = <<>> THEN 0 ELSE Head(days).distance + sumDistance(Tail(days))

RECURSIVE sumElevation(_)
sumElevation(days) ==
    IF days = <<>> THEN 0 ELSE Head(days).elevation + sumElevation(Tail(days))

\* Math.round(a / b) for b > 0: floor(a / b + 1/2).
roundDiv(a, b) == (2 * a + b) \div (2 * b)

Placeholder == [available |-> FALSE, ftPerMile |-> 0]

\* Variant: the test is `totalDistance !== 0`.
vertPerMileOfNonZero(totalDistance, totalElevation) ==
    IF totalDistance # 0
    THEN [available |-> TRUE, ftPerMile |-> roundDiv(totalElevation, totalDistance)]
    ELSE Placeholder

\* `totalDistance > 0 ? round(totalElevation / totalDistance) ft/mi : placeholder`
vertPerMileOf(totalDistance, totalElevation) ==
    IF totalDistance > 0
    THEN [available |-> TRUE, ftPerMile |-> roundDiv(totalElevation, totalDistance)]
    ELSE Placeholder

\* buildDayTable: one row per result, a statistics row or a failure row.
buildDayTable(results) ==
    [p \in 1..Len(results) |->
        LET day == results[p]
        IN [failed    |-> ~day.ok,
            dayNumber |-> day.dayNumber,
            distance  |-> IF day.ok THEN day.distance ELSE 0,
            elevation |-> IF day.ok THEN day.elevation ELSE 0,
            message   |-> IF day.ok THEN ""
                          ELSE IF day.error = None THEN "unknown error"
                          ELSE day.error[1]]]

\* buildLegend: one item per ok day; the legend is hidden when there is none.
buildLegend(results) ==
    LET valid == validDays(results)
    IN [hidden |-> valid = <<>>,
        items  |-> [k \in 1..Len(valid) |->
                       [index |-> valid[k].index, dayNumber |-> valid[k].dayNumber]]]

\* Leaflet: layer.getBounds().isValid() of L.geoJSON(geojson), which holds
\* when the layer has drawn at least one coordinate.
RECURSIVE anyFeatureCoords(_)
anyFeatureCoords(features) ==
    IF features = <<>> THEN FALSE
    ELSE (~Head(features).isNull
          /\ Len(extractCoordsFromGeometry(Head(features).geometry)) > 0)
         \/ anyFeatureCoords(Tail(features))

layerBoundsValid(geojson) ==
    IF geojson.type = "FeatureCollection"
    THEN geojson.features # None /\ anyFeatureCoords(geojson.features[1])
    ELSE IF geojson.type = "Feature"
    THEN Len(extractCoordsFromGeometry(geojson.geometry)) > 0
    ELSE Len(extractCoordsFromGeometry(geojson)) > 0

BoundsError == "Could not determine route bounds."

NoDaysError == "No day files listed in meta.json."

NoMap == [built |-> FALSE, threw |-> FALSE, layers |-> <<>>,
          start |-> None, end |-> None, fitted |-> FALSE]

\* [lat, lon] for Leaflet
latLon(coord) == <<coord[2], coord[1]>>

\* The loop of buildMap over validDays, up to and including day k; it stops
\* at the first day whose extractCoords raises (the call is outside any try).
RECURSIVE mapLoop(_, _)
mapLoop(days, k) ==
    IF k = 0 THEN [NoMap EXCEPT !.built = TRUE]
    ELSE LET before == mapLoop(days, k - 1)
             ex     == extractCoords(days[k].geojson)
         IN IF before.threw THEN before
            ELSE IF ex.raise
            THEN [before EXCEPT !.threw = TRUE,
                                !.layers = Append(@, days[k].index)]
            ELSE [before EXCEPT
                    !.layers = Append(@, days[k].index),
                    !.start  = IF Len(ex.coords) > 0 /\ before.start = None
                               THEN Some(latLon(ex.coords[1])) ELSE @,
                    !.end    = IF Len(ex.coords) > 0
                               THEN Some(latLon(ex.coords[Len(ex.coords)])) ELSE @,
                    !.fitted = @ \/ layerBoundsValid(days[k].geojson)]

\* Variant: the map counts as fitted whatever the layers hold.
buildMapAlwaysFitted(results) ==
    LET days == SelectSeq(results, LAMBDA d : d.ok /\ ~d.geojson.isNull)
    IN [mapLoop(days, Len(days)) EXCEPT !.fitted = TRUE]

\* buildMap: layers of the ok days that have a body, start/end markers, and
\* the fit to the route bounds or the bounds error.
buildMap(results) ==
    LET days == SelectSeq(results, LAMBDA d : d.ok /\ ~d.geojson.isNull)
    IN mapLoop(days, Len(days))

(***************************************************************************)
(* State                                                                   *)
(***************************************************************************)
VARIABLES
    pc,          \* where initTripPage stands: "metaFetch", "metaJson",
                 \* "metaError", "noDays", "loading", "done", "threw"
    meta,        \* what the network answered for meta.json so far
    header,      \* TRUE once the header fields have been set from meta
    metaError,   \* the messages passed to showMetaError, in order
    mapError,    \* the messages passed to showMapError, in order
    dayFiles,    \* the day entries of meta.json
    lpc,         \* per day: "fetch", "json" or "done" (loadDayGeoJSON)
    response,    \* per day: what the network answered so far
    result,      \* per day: the result object of its loadDayGeoJSON call
    promise,     \* per day: "pending", "fulfilled" or "rejected"
    settled,     \* the days in the order in which their loads settled
    values,      \* Promise.all: the slots of the array it resolves with
    remaining,   \* Promise.all: promises not yet fulfilled
    joinState,   \* Promise.all: "pending", "fulfilled" or "rejected"
    dayResults,  \* what `await loadAllDays(...)` returned
    totals,      \* None, or Some of totalDistance, totalElevation, vertPerMile
    table,       \* None, or Some of the rows of the day table
    map,         \* the Leaflet map as built by buildMap
    legend,      \* None, or Some of the legend
    geo,         \* a parsed geometry value handed to extractCoords
    extracted    \* None, or Some of what extractCoords did with geo

vars == <<pc, meta, header, metaError, mapError, dayFiles, lpc, response, result,
          promise, settled, values, remaining, joinState, dayResults, totals, table,
          map, legend, geo, extracted>>

extractVars == <<geo, extracted>>

loaderVars == <<lpc, response, result, promise, settled, values, remaining,
                joinState>>

pageVars == <<dayResults, totals, table, map, legend>>

Days == 1..Len(dayFiles)

NoMeta == [fetch |-> "pending", body |-> "pending",
           days |-> [isArray |-> FALSE, list |-> <<>>]]

Init ==
    /\ pc = "metaFetch"
    /\ meta = NoMeta
    /\ header = FALSE
    /\ metaError = <<>>
    /\ mapError = <<>>
    /\ dayFiles = <<>>
    /\ lpc = <<>>
    /\ response = <<>>
    /\ result = <<>>
    /\ promise = <<>>
    /\ settled = <<>>
    /\ values = <<>>
    /\ remaining = 0
    /\ joinState = "pending"
    /\ dayResults = <<>>
    /\ totals = None
    /\ table = None
    /\ map = NoMap
    /\ legend = None
    /\ geo = NullJson
    /\ extracted = None

(***************************************************************************)
(* initTripPage: the metadata                                              *)
(***************************************************************************)
\* Variant: the status of the response is not looked at.
metaFetchThrowsOnRejectOnly(outcome) == outcome = "reject"

\* `await fetch(metaUrl)` throws, or `!res.ok` makes the code throw.
metaFetchThrows(outcome) == outcome # "ok"

\* Variant: the day list is never found empty.
noDayFilesNever(files) == FALSE

\* `dayFiles.length === 0`
noDayFiles(files) == Len(files) = 0

\* Variant: the loads are issued one after the other.
lpcAtStartSequential(p) == IF p = 1 THEN "fetch" ELSE "idle"

\* Every loadDayGeoJSON call of dayFiles.map runs up to its `await fetch(url)`.
lpcAtStart(p) == "fetch"

\* `await fetch(metaUrl)` settles; a rejection or a non-success status is
\* caught and reported by showMetaError.
MetaFetchSettles ==
    /\ pc = "metaFetch"
    /\ \E outcome \in FetchOutcomes :
         /\ meta' = [meta EXCEPT !.fetch = outcome]
         /\ IF metaFetchThrows(outcome)
            THEN /\ pc' = "metaError"
                 /\ metaError' = Append(metaError, fetchErrorMessage(outcome))
            ELSE /\ pc' = "metaJson"
                 /\ UNCHANGED metaError
    /\ UNCHANGED <<header, mapError, dayFiles>>
    /\ UNCHANGED loaderVars
    /\ UNCHANGED pageVars
    /\ UNCHANGED extractVars

\* loadAllDays: dayFiles.map runs every loadDayGeoJSON up to its
\* `await fetch(url)`, then Promise.all is given the promises.
startLoaders(files) ==
    /\ lpc' = [p \in 1..Len(files) |-> lpcAtStart(p)]
    /\ response' = [p \in 1..Len(files) |-> [fetch |-> "pending", body |-> "pending"]]
    /\ result' = [p \in 1..Len(files) |-> newResult(files[p], p - 1)]
    /\ promise' = [p \in 1..Len(files) |-> "pending"]
    /\ settled' = <<>>
    /\ values' = [p \in 1..Len(files) |-> None]
    /\ remaining' = Len(files)
    /\ joinState' = IF Len(files) = 0 THEN "fulfilled" ELSE "pending"

\* `await res.json()` of the metadata settles: a parse failure is reported
\* by showMetaError; otherwise the header is set, the day list is checked
\* and all day loads are started.
MetaJsonSettles ==
    /\ pc = "metaJson"
    /\ \/ /\ meta' = [meta EXCEPT !.body = "parseError"]
          /\ pc' = "metaError"
          /\ metaError' = Append(metaError, SyntaxErrorMessage)
          /\ UNCHANGED <<header, mapError, dayFiles>>
          /\ UNCHANGED loaderVars
       \/ \E days \in MetaDaysSet :
            LET files == IF days.isArray THEN days.list ELSE <<>>
            IN /\ meta' = [meta EXCEPT !.body = "parsed", !.days = days]
               /\ header' = TRUE
               /\ dayFiles' = files
               /\ UNCHANGED metaError
               /\ IF noDayFiles(files)
                  THEN /\ mapError' = Append(mapError, NoDaysError)
                       /\ pc' = "noDays"
                       /\ UNCHANGED loaderVars
                  ELSE /\ startLoaders(files)
                       /\ pc' = "loading"
                       /\ UNCHANGED mapError
    /\ UNCHANGED pageVars
    /\ UNCHANGED extractVars

(***************************************************************************)
(* loadDayGeoJSON: the continuations of one day's load                     *)
(***************************************************************************)
\* Variant: the error message lives in a variable all loads share.
loaderReturnsSharedError(p, s) ==
    /\ lpc' = [lpc EXCEPT ![p] = "done"]
    /\ result' = [q \in 1..Len(result) |->
                     IF q = p THEN s.result
                     ELSE [result[q] EXCEPT !.error = s.result.error]]
    /\ promise' = [promise EXCEPT ![p] = s.state]
    /\ settled' = Append(settled, p)
    /\ values' = [values EXCEPT ![p] = Some(s.result)]
    /\ remaining' = remaining - 1
    /\ joinState' = IF joinState = "pending" /\ remaining = 1
                    THEN "fulfilled" ELSE joinState

\* The async function of day p returns: its promise settles and the
\* reaction of Promise.all runs.
loaderReturns(p, s) ==
    /\ lpc' = [lpc EXCEPT ![p] = "done"]
    /\ result' = [result EXCEPT ![p] = s.result]
    /\ promise' = [promise EXCEPT ![p] = s.state]
    /\ settled' = Append(settled, p)
    /\ IF s.state = "fulfilled"
       THEN /\ values' = [values EXCEPT
                            ![promiseAllSlot(values, remaining, p)] = Some(s.result)]
            /\ remaining' = remaining - 1
            /\ joinState' = IF joinState = "pending" /\ remaining = 1
                            THEN "fulfilled" ELSE joinState
       ELSE /\ joinState' = IF joinState = "pending" THEN "rejected" ELSE joinState
            /\ UNCHANGED <<values, remaining>>

\* `await fetch(url)` of day p settles.
DayFetchSettles(p) ==
    /\ pc = "loading"
    /\ lpc[p] = "fetch"
    /\ \E outcome \in FetchOutcomes :
         /\ response' = [response EXCEPT ![p].fetch = outcome]
         /\ IF outcome = "ok"
            THEN /\ lpc' = [lpc EXCEPT ![p] = "json"]
                 /\ UNCHANGED <<result, promise, settled, values, remaining,
                              joinState>>
            ELSE loaderReturns(p, settle(Threw(result[p], fetchErrorMessage(outcome))))
    /\ UNCHANGED <<pc, meta, header, metaError, mapError, dayFiles>>
    /\ UNCHANGED pageVars
    /\ UNCHANGED extractVars

\* `await res.json()` of day p settles.
DayJsonSettles(p) ==
    /\ pc = "loading"
    /\ lpc[p] = "json"
    /\ \E outcome \in JsonOutcomes :
         /\ response' = [response EXCEPT ![p].body = outcome]
         /\ IF outcome = "parseError"
            THEN loaderReturns(p, settle(Threw(result[p], SyntaxErrorMessage)))
            ELSE loaderReturns(p, settle(afterParse(result[p], dayFiles[p], Body(outcome))))
    /\ UNCHANGED <<pc, meta, header, metaError, mapError, dayFiles>>
    /\ UNCHANGED pageVars
    /\ UNCHANGED extractVars

(***************************************************************************)
(* initTripPage: after `await loadAllDays(...)`                            *)
(***************************************************************************)
\* Promise.all has settled.  Fulfilled: totals, vert per mile, table, map
\* and legend, in that order; an exception in buildMap ends the function
\* before buildLegend.  Rejected: the await throws and the function ends.
JoinSettles ==
    /\ pc = "loading"
    /\ joinState # "pending"
    /\ IF joinState = "rejected"
       THEN /\ pc' = "threw"
            /\ UNCHANGED <<mapError, dayResults, totals, table, map, legend>>
       ELSE LET results == [p \in 1..Len(values) |-> values[p][1]]
                valid   == validDays(results)
                totalDistance  == sumDistance(valid)
                totalElevation == sumElevation(valid)
                built   == buildMap(results)
            IN /\ dayResults' = results
               /\ totals' = Some([totalDistance  |-> totalDistance,
                                  totalElevation |-> totalElevation,
                                  vertPerMile    |-> vertPerMileOf(totalDistance,
                                                                   totalElevation)])
               /\ table' = Some(buildDayTable(results))
               /\ map' = built
               /\ IF built.threw
                  THEN /\ pc' = "threw"
                       /\ UNCHANGED <<mapError, legend>>
                  ELSE /\ mapError' = IF built.fitted THEN mapError
                                      ELSE Append(mapError, BoundsError)
                       /\ legend' = Some(buildLegend(results))
                       /\ pc' = "done"
    /\ UNCHANGED <<meta, header, metaError, dayFiles>>
    /\ UNCHANGED loaderVars
    /\ UNCHANGED extractVars

Next ==
    \/ MetaFetchSettles
    \/ MetaJsonSettles
    \/ \E p \in Days : DayFetchSettles(p)
    \/ \E p \in Days : DayJsonSettles(p)
    \/ JoinSettles

Spec == Init /\ [][Next]_vars

(***************************************************************************)
(* extractCoords on its own: every geometry value of a bounded family is   *)
(* handed to the function once.                                            *)
(***************************************************************************)
\* Longest features list of a generated FeatureCollection.
MaxFeatures == 3

GeometryKinds == {"nullGeometry", "point", "unknown", "lineB", "lineC",
                  "emptyLine", "lineNoCoords", "multi", "emptyMulti",
                  "multiNoCoords"}

GeometryOf(kind) ==
    CASE kind = "point"         -> Geometry("Point", Some(<<1, 1>>))
      [] kind = "unknown"       -> Geometry("Polygon", None)
      [] kind = "lineB"         -> Geometry("LineString", Some(LineB))
      [] kind = "lineC"         -> Geometry("LineString", Some(LineC))
      [] kind = "emptyLine"     -> Geometry("LineString", Some(<<>>))
      [] kind = "lineNoCoords"  -> Geometry("LineString", None)
      [] kind = "multi"         -> Geometry("MultiLineString", Some(<<LineB, LineC>>))
      [] kind = "emptyMulti"    -> Geometry("MultiLineString", Some(<<>>))
      [] kind = "multiNoCoords" -> Geometry("MultiLineString", None)
      [] OTHER                  -> NullGeometry

\* The entries of a features list: null, or a feature with some geometry.
FeatureKinds == {"nullEntry", "nullGeometry", "point", "lineB", "lineC",
                 "emptyLine", "multi"}

FeatureOf(kind) ==
    IF kind = "nullEntry" THEN NullFeature
    ELSE Feature(GeometryOf(kind), NoProps)

TopKinds == {"null", "FeatureCollection", "FeatureCollectionNoFeatures",
             "Feature", "geometry"}

GeoOf(top, featureKinds, geometryKind) ==
    CASE top = "FeatureCollection" ->
           FeatureCollectionJson(Some([k \in 1..Len(featureKinds) |->
                                          FeatureOf(featureKinds[k])]))
      [] top = "FeatureCollectionNoFeatures" -> FeatureCollectionJson(None)
      [] top = "Feature" -> FeatureJson(GeometryOf(geometryKind), NoProps)
      [] top = "geometry" ->
           IF geometryKind = "nullGeometry" THEN NullJson
           ELSE GeometryJson(GeometryOf(geometryKind).type,
                             GeometryOf(geometryKind).coordinates)
      [] OTHER -> NullJson

ExtractInit ==
    /\ pc = "extract"
    /\ meta = NoMeta
    /\ header = FALSE
    /\ metaError = <<>>
    /\ mapError = <<>>
    /\ dayFiles = <<>>
    /\ lpc = <<>>
    /\ response = <<>>
    /\ result = <<>>
    /\ promise = <<>>
    /\ settled = <<>>
    /\ values = <<>>
    /\ remaining = 0
    /\ joinState = "pending"
    /\ dayResults = <<>>
    /\ totals = None
    /\ table = None
    /\ map = NoMap
    /\ legend = None
    /\ extracted = None
    /\ \E top \in TopKinds, fs \in SeqsUpTo(FeatureKinds, MaxFeatures),
          g \in GeometryKinds :
          geo = GeoOf(top, fs, g)

\* The call extractCoords(geo).
ExtractCall ==
    /\ pc = "extract"
    /\ extracted = None
    /\ extracted' = Some(extractCoords(geo))
    /\ UNCHANGED <<pc, meta, header, metaError, mapError, dayFiles, geo>>
    /\ UNCHANGED loaderVars
    /\ UNCHANGED pageVars

ExtractNext == ExtractCall

SpecExtract == ExtractInit /\ [][ExtractNext]_vars

(***************************************************************************)
(* Properties                                                              *)
(***************************************************************************)
\* The join has returned the result list to initTripPage.
Joined == totals # None

\* Day p's fetch answered 2xx and its body parsed.
Parsed(p) == response[p].fetch = "ok" /\ response[p].body \in BodyNames

\* Day p's load has returned its result.
Returned_(p) == lpc[p] = "done"

\* C1: the list returned by loadAllDays has the length of the day list and
\* its element at position i has index i (0-based) and the filename of the
\* i-th declared entry, whatever the order in which the loads settled.
C1_OrderPreserved ==
    Joined => /\ Len(dayResults) = Len(dayFiles)
              /\ \A p \in 1..Len(dayResults) :
                    /\ dayResults[p].index = p - 1
                    /\ dayResults[p].filename = dayFiles[p].file

\* A later day settled before an earlier one (one of them failing) and the
\* list has been returned.
C1_Witness ==
    /\ Joined
    /\ Len(settled) >= 2
    /\ settled[1] > settled[2]
    /\ \E p \in Days : ~dayResults[p].ok
    /\ dayFiles[1] # dayFiles[2]

\* What day p's load yields when run on its own inputs alone: its entry,
\* its index and the body the network answered with.
OwnResult(p) ==
    settle(afterParse(newResult(dayFiles[p], p - 1), dayFiles[p],
                      Body(response[p].body))).result

RECURSIVE SumOver(_, _)
SumOver(f, S) ==
    IF S = {} THEN 0
    ELSE LET p == CHOOSE q \in S : TRUE
         IN f[p] + SumOver(f, S \ {p})

\* C2: when some day's load fails, every day whose fetch and parse succeeded
\* has ok = TRUE and the distance and elevation its own entry and body
\* determine, and the trip totals are the sums of those values.
C2_FailureIsolated ==
    (Joined /\ \E q \in Days : ~Parsed(q)) =>
        LET good == {p \in Days : Parsed(p)}
        IN /\ \A p \in good :
                /\ dayResults[p].ok
                /\ dayResults[p].distance = OwnResult(p).distance
                /\ dayResults[p].elevation = OwnResult(p).elevation
           /\ totals[1].totalDistance =
                SumOver([p \in Days |-> OwnResult(p).distance], good)
           /\ totals[1].totalElevation =
                SumOver([p \in Days |-> OwnResult(p).elevation], good)

\* One day answered 404, another parsed and contributes non-zero totals.
C2_Witness ==
    /\ Joined
    /\ \E q \in Days : response[q].fetch = "http404"
    /\ \E p \in Days : Parsed(p) /\ dayResults[p].distance > 0
    /\ totals[1].totalDistance > 0
    /\ totals[1].totalElevation > 0

\* C3: no promise of loadDayGeoJSON is ever rejected, a load that has
\* returned has a fulfilled promise, and the join is never rejected.
C3_NeverRejects ==
    /\ joinState # "rejected"
    /\ \A p \in Days : /\ promise[p] # "rejected"
                       /\ Returned_(p) => promise[p] = "fulfilled"

\* The join is fulfilled although one load failed in the network or in the
\* parse and one failed in the normalisation.
C3_Witness ==
    /\ joinState = "fulfilled"
    /\ \E p \in Days : ~Parsed(p) /\ result[p].error # None
    /\ \E p \in Days : Parsed(p) /\ result[p].error # None

\* C4: a returned result with ok = FALSE has distance 0, elevation 0, no
\* geometry, dayNumber = index + 1 and an error message.
C4_FailedResultShape ==
    \A p \in Days :
        (Returned_(p) /\ ~result[p].ok) =>
            /\ result[p].distance = 0
            /\ result[p].elevation = 0
            /\ result[p].geojson.isNull
            /\ result[p].dayNumber = result[p].index + 1
            /\ result[p].error # None

\* A manual entry declaring non-zero stats has failed.
C4_Witness ==
    \E p \in Days :
        /\ Returned_(p)
        /\ ~result[p].ok
        /\ dayFiles[p].isNewFormat
        /\ dayFiles[p].distance_miles = Some(4)
        /\ dayFiles[p].elevation_gain_ft = Some(9)

\* C5: in every returned result, error is present only when ok is FALSE.
C5_ErrorOnlyWhenNotOk ==
    \A p \in Days :
        Returned_(p) => (result[p].error # None => ~result[p].ok)

\* C6: for a manual entry whose fetch and parse succeeded, distance is the
\* declared distance_miles (0 when absent) and elevation the declared
\* elevation_gain_ft (0 when absent), whatever the body holds.
C6_ManualStatsVerbatim ==
    \A p \in Days :
        (Returned_(p) /\ Parsed(p) /\ dayFiles[p].isNewFormat) =>
            /\ result[p].distance =
                 (IF dayFiles[p].distance_miles = None THEN 0
                  ELSE dayFiles[p].distance_miles[1])
            /\ result[p].elevation =
                 (IF dayFiles[p].elevation_gain_ft = None THEN 0
                  ELSE dayFiles[p].elevation_gain_ft[1])

\* A manual entry with declared stats got a body whose embedded properties
\* and whose coordinates both give other numbers; another manual entry
\* without stats got a body with coordinates.
C6_Witness ==
    /\ \E p \in Days :
          /\ Returned_(p)
          /\ dayFiles[p].isNewFormat
          /\ dayFiles[p].distance_miles = Some(4)
          /\ response[p].body = "fcEmbedded"
          /\ calcDistance(extractCoords(result[p].geojson).coords) = 8
    /\ \E p \in Days :
          /\ Returned_(p)
          /\ dayFiles[p].isNewFormat
          /\ dayFiles[p].distance_miles = None
          /\ response[p].body = "line"

\* C7: for a legacy entry whose fetch and parse succeeded, an embedded
\* distance_miles / elevation_gain_ft of the first feature is the result's
\* distance / elevation, and a value that is not embedded is the Metric
\* Calculator's value for the extracted coordinate sequence.
C7_LegacyStats ==
    \A p \in Days :
        (Returned_(p) /\ Parsed(p) /\ ~dayFiles[p].isNewFormat) =>
            LET props == getFirstFeatureProps(Body(response[p].body))
                ex    == extractCoords(Body(response[p].body))
            IN /\ result[p].distance =
                    (IF ~props.isNull /\ props.distance_miles # None
                     THEN props.distance_miles[1] ELSE calcDistance(ex.coords))
               /\ result[p].elevation =
                    (IF ~props.isNull /\ props.elevation_gain_ft # None
                     THEN props.elevation_gain_ft[1]
                     ELSE calcElevationGain(ex.coords))

\* C8: totalDistance and totalElevation are the sums of distance and of
\* elevation over exactly the results with ok = TRUE.
C8_TotalsOverOkDays ==
    Joined =>
        LET okDays == {p \in 1..Len(dayResults) : dayResults[p].ok}
        IN /\ totals[1].totalDistance =
                SumOver([p \in 1..Len(dayResults) |-> dayResults[p].distance], okDays)
           /\ totals[1].totalElevation =
                SumOver([p \in 1..Len(dayResults) |-> dayResults[p].elevation], okDays)

\* Two ok days with different non-zero distances have been summed.
C8_Witness ==
    /\ Joined
    /\ \E p, q \in Days :
          /\ p < q
          /\ dayResults[p].ok /\ dayResults[q].ok
          /\ dayResults[p].distance > 0 /\ dayResults[q].distance > 0
          /\ dayResults[p].distance # dayResults[q].distance
          /\ dayResults[p].elevation # dayResults[q].elevation

\* C9 as stated: vertPerMile is the placeholder exactly when
\* totalDistance = 0.
C9_UnavailableIffZero ==
    Joined => (totals[1].vertPerMile.available <=> totals[1].totalDistance # 0)

\* C9: vertPerMile is a ft/mi number exactly when totalDistance > 0, and the
\* placeholder otherwise (zero or negative); the number is
\* totalElevation / totalDistance rounded to the nearest integer, half up.
C9_AvailableIffPositive ==
    Joined =>
        LET d == totals[1].totalDistance
            e == totals[1].totalElevation
            v == totals[1].vertPerMile
        IN /\ v.available <=> d > 0
           /\ v.available => /\ 2 * d * v.ftPerMile <= 2 * e + d
                             /\ 2 * e + d < 2 * d * (v.ftPerMile + 1)
           /\ ~v.available => v = Placeholder

\* The totals of a trip whose declared distances sum to a negative number:
\* the placeholder is shown although totalDistance differs from 0.
C9_Witness ==
    /\ Joined
    /\ totals[1].totalDistance < 0
    /\ ~totals[1].vertPerMile.available

\* C10 as stated: every returned result has distance >= 0 and
\* elevation >= 0.
C10_NonNegative ==
    \A p \in Days :
        Returned_(p) => result[p].distance >= 0 /\ result[p].elevation >= 0

\* The stats value that applies to day p's field, if one is given: the
\* declared one of a manual entry, the embedded one of a legacy entry.
GivenDistance(p) ==
    IF dayFiles[p].isNewFormat THEN dayFiles[p].distance_miles
    ELSE IF Parsed(p)
    THEN getFirstFeatureProps(Body(response[p].body)).distance_miles
    ELSE None

GivenElevation(p) ==
    IF dayFiles[p].isNewFormat THEN dayFiles[p].elevation_gain_ft
    ELSE IF Parsed(p)
    THEN getFirstFeatureProps(Body(response[p].body)).elevation_gain_ft
    ELSE None

\* C10: a returned result has distance >= 0 unless the distance_miles given
\* for it (declared or embedded) is negative, and elevation >= 0 unless the
\* elevation_gain_ft given for it is negative.
C10_NonNegativeUnlessGivenNegative ==
    \A p \in Days :
        Returned_(p) =>
            /\ (GivenDistance(p) = None \/ GivenDistance(p)[1] >= 0)
                  => result[p].distance >= 0
            /\ (GivenElevation(p) = None \/ GivenElevation(p)[1] >= 0)
                  => result[p].elevation >= 0

\* A manual entry without stats and a legacy entry with computed stats have
\* both returned ok.
C10_Witness ==
    /\ \E p \in Days :
          /\ Returned_(p) /\ result[p].ok
          /\ dayFiles[p].isNewFormat
          /\ dayFiles[p].distance_miles = None
    /\ \E p \in Days :
          /\ Returned_(p) /\ result[p].ok
          /\ ~dayFiles[p].isNewFormat
          /\ response[p].body = "line"
          /\ result[p].distance > 0

\* Nothing of the aggregation or of the presentation of the days exists.
NothingBuilt ==
    /\ dayResults = <<>>
    /\ totals = None
    /\ table = None
    /\ map = NoMap
    /\ legend = None

\* No day load was ever started.
NoDayFetch == lpc = <<>> /\ response = <<>> /\ result = <<>>

\* C11: once the metadata has parsed with zero day entries (an empty list,
\* or a value that is not a list), the header has been rendered, the map
\* error 'No day files listed in meta.json.' is the only thing reported,
\* no day fetch has been issued, no totals, table, map or legend exist, and
\* initTripPage takes no further step.
C11_EmptyDayList ==
    (meta.body = "parsed" /\ (~meta.days.isArray \/ meta.days.list = <<>>)) =>
        /\ pc = "noDays"
        /\ header
        /\ mapError = <<NoDaysError>>
        /\ metaError = <<>>
        /\ NoDayFetch
        /\ NothingBuilt
        /\ ~ENABLED Next

\* The metadata parsed and its days value is not a list.
C11_Witness ==
    /\ meta.body = "parsed"
    /\ ~meta.days.isArray
    /\ pc = "noDays"
    /\ header

\* C12: once the metadata fetch was rejected or answered a non-success
\* status, or the metadata body failed to parse, the metadata error has
\* been reported exactly once, no header field is set, no day fetch has
\* been issued, no totals, table, map or legend exist, and initTripPage
\* takes no further step.
C12_MetaFailure ==
    (meta.fetch \in {"reject", "http404"} \/ meta.body = "parseError") =>
        /\ pc = "metaError"
        /\ Len(metaError) = 1
        /\ metaError[1] = (IF meta.fetch = "ok" THEN SyntaxErrorMessage
                           ELSE fetchErrorMessage(meta.fetch))
        /\ ~header
        /\ mapError = <<>>
        /\ NoDayFetch
        /\ NothingBuilt
        /\ ~ENABLED Next

\* The metadata answered 404.
C12_Witness ==
    /\ meta.fetch = "http404"
    /\ pc = "metaError"
    /\ metaError = <<"HTTP 404">>

\* C13: when every declared day failed to load and initTripPage has gone
\* through the aggregation, both totals are 0, vertPerMile is the
\* placeholder, the result list has one entry per declared day, and the
\* bounds error 'Could not determine route bounds.' has been reported.
C13_AllDaysFailed ==
    (pc \in {"done", "threw"} /\ \A p \in Days : ~result[p].ok) =>
        /\ pc = "done"
        /\ totals # None
        /\ totals[1].totalDistance = 0
        /\ totals[1].totalElevation = 0
        /\ totals[1].vertPerMile = Placeholder
        /\ Len(dayResults) = Len(dayFiles)
        /\ Len(dayFiles) >= 1
        /\ mapError = <<BoundsError>>

\* Two declared days, one rejected and one with a body that does not parse,
\* have been aggregated.
C13_Witness ==
    /\ pc = "done"
    /\ Len(dayFiles) = 2
    /\ response[1].fetch = "reject"
    /\ response[2].body = "parseError"
    /\ mapError = <<BoundsError>>

\* C14: while the days load, every declared day has its fetch issued (none
\* waits for another to settle), and the result list, the totals, the
\* table, the map and the legend exist only when every day's load has
\* returned, the list then holding one entry per declared day.
C14_IssuedTogetherJoinedAfterAll ==
    /\ pc = "loading" =>
          /\ Len(lpc) = Len(dayFiles)
          /\ \A p \in Days : lpc[p] \in {"fetch", "json", "done"}
    /\ ~NothingBuilt =>
          /\ \A p \in Days : lpc[p] = "done"
          /\ Len(dayResults) = Len(dayFiles)

\* The second day's load has returned while the first day's fetch, issued
\* at the same time, is still in flight; nothing has been built.
C14_Witness ==
    /\ pc = "loading"
    /\ Len(dayFiles) = 2
    /\ lpc[1] = "fetch"
    /\ lpc[2] = "done"
    /\ NothingBuilt

\* The `day` property of the first feature of a body, None when there is no
\* first feature, no properties or no such property.
FirstFeatureDay(body) ==
    IF body.isNull THEN None
    ELSE IF body.type = "Feature" THEN
        (IF body.properties.isNull THEN None ELSE body.properties.day)
    ELSE IF body.type = "FeatureCollection" /\ body.features # None
            /\ Len(body.features[1]) >= 1 /\ ~body.features[1][1].isNull
            /\ ~body.features[1][1].properties.isNull
    THEN body.features[1][1].properties.day
    ELSE None

\* C17: a returned result's dayNumber is the `day` property of the first
\* feature when the fetch and parse succeeded and the property is present,
\* and index + 1 in every other case.
C17_DayNumber ==
    \A p \in Days :
        Returned_(p) =>
            LET day == IF Parsed(p) THEN FirstFeatureDay(Body(response[p].body))
                       ELSE None
            IN result[p].dayNumber =
                 (IF result[p].ok /\ day # None THEN day[1]
                  ELSE result[p].index + 1)

\* The second day carries the embedded label 7, the first day has a bare
\* geometry and keeps its declaration number.
C17_Witness ==
    /\ Len(dayFiles) = 2
    /\ Returned_(1) /\ Returned_(2)
    /\ response[1].body = "line"
    /\ result[1].dayNumber = 1
    /\ response[2].body = "fcEmbedded"
    /\ result[2].dayNumber = 7

\* C18: a run of initTripPage that can take no further step has ended in
\* one of three outcomes: the metadata error reported, the empty day list
\* reported, or totals, table, map and legend all built; and while a day's
\* load has not returned, nothing of the totals or the rendering exists.
C18_TerminalOutcome ==
    /\ ~ENABLED Next =>
          \/ pc = "metaError" /\ metaError # <<>>
          \/ pc = "noDays" /\ mapError = <<NoDaysError>>
          \/ /\ pc = "done"
             /\ totals # None
             /\ table # None
             /\ map.built
             /\ legend # None
    /\ (\E p \in Days : lpc[p] # "done") => NothingBuilt

\* The fields of a DayResult, compared one by one.
SameResult(a, b) ==
    /\ a.index = b.index
    /\ a.ok = b.ok
    /\ a.distance = b.distance
    /\ a.elevation = b.elevation
    /\ a.dayNumber = b.dayNumber
    /\ a.error = b.error
    /\ a.filename = b.filename
    /\ a.geojson.isNull = b.geojson.isNull
    /\ a.geojson.type = b.geojson.type

\* C19: a step of the load of day i leaves the result of every other day
\* as it was; the list handed to initTripPage holds the results as the
\* loads returned them; and once it is handed over no result changes.
C19_ResultsFramed ==
    [][ /\ \A i, j \in 1..Len(result) :
              (i # j /\ lpc'[i] # lpc[i]) => SameResult(result'[j], result[j])
        /\ dayResults' # <<>> =>
              /\ Len(dayResults') = Len(result)
              /\ \A p \in 1..Len(result) :
                    /\ SameResult(dayResults'[p], result[p])
                    /\ SameResult(result'[p], result[p])
        /\ dayResults # <<>> => dayResults' = dayResults
      ]_vars

\* Both days have returned, the second one first and with an error, the
\* first one ok, and the list has been handed over and rendered.
C19_Witness ==
    /\ pc = "done"
    /\ settled = <<2, 1>>
    /\ result[2].error # None
    /\ result[1].ok /\ result[1].error = None
    /\ table # None /\ legend # None

\* The coordinate sequence of one geometry as the design states it: the
\* coordinates of a LineString, the members of a MultiLineString one after
\* the other, empty for anything else.
RECURSIVE Concatenation(_, _)
Concatenation(members, k) ==
    IF k = 0 THEN <<>> ELSE Concatenation(members, k - 1) \o members[k]

GeometryCoords(g) ==
    IF g.isNull \/ g.coordinates = None THEN <<>>
    ELSE IF g.type = "LineString" THEN g.coordinates[1]
    ELSE IF g.type = "MultiLineString"
    THEN Concatenation(g.coordinates[1], Len(g.coordinates[1]))
    ELSE <<>>

\* The sequence the design states for a parsed geometry value.
ExpectedCoords(g) ==
    IF g.isNull THEN <<>>
    ELSE IF g.type = "FeatureCollection" THEN
        LET fs   == IF g.features = None THEN <<>> ELSE g.features[1]
            hits == {k \in 1..Len(fs) :
                        ~fs[k].isNull /\ GeometryCoords(fs[k].geometry) # <<>>}
        IN IF hits = {} THEN <<>>
           ELSE GeometryCoords(fs[CHOOSE k \in hits : \A m \in hits : k <= m].geometry)
    ELSE IF g.type = "Feature" THEN GeometryCoords(g.geometry)
    ELSE GeometryCoords(g)

\* C15: extractCoords returns: for a FeatureCollection the sequence of the
\* first listed feature whose geometry yields a non-empty sequence; for a
\* Feature the sequence of its geometry; for a bare LineString its
\* coordinates; for a bare MultiLineString the concatenation of its
\* members; the empty sequence for any other kind.
C15_ExtractedSequence ==
    extracted # None =>
        /\ ~extracted[1].raise
        /\ extracted[1].coords = ExpectedCoords(geo)

\* C16: extractCoords raises no error for any parsed geometry value, and
\* returns the empty sequence when the value holds nothing extractable.
C16_NeverRaises ==
    extracted # None =>
        /\ ~extracted[1].raise
        /\ ExpectedCoords(geo) = <<>> => extracted[1].coords = <<>>

\* What C15 states, on the values whose features list has no null entry.
ExtractedSequenceWithoutNullEntries ==
    (extracted # None
       /\ ~(geo.type = "FeatureCollection" /\ geo.features # None
            /\ \E k \in 1..Len(geo.features[1]) : geo.features[1][k].isNull)) =>
        /\ ~extracted[1].raise
        /\ extracted[1].coords = ExpectedCoords(geo)

====
